---- MODULE Spec2Model ----
(***************************************************************************)
(* A model of src/montyp_compiler.py: the MonthyCompiler line compiler.    *)
(*                                                                         *)
(* Text is modelled as a sequence of one-character strings, so that the    *)
(* regular expressions, str.replace, str.partition and str.strip of the    *)
(* source are computed character by character.  Error messages, which the  *)
(* source only concatenates, are TLA+ strings.                             *)
(***************************************************************************)
EXTENDS Integers, Sequences, FiniteSets, TLC

VARIABLES
    self,      \* the MonthyCompiler instance: indent_unit, lines, indent, stack
    fresh,     \* a second instance, constructed anew for every compile call
    source,    \* the physical lines of source.splitlines() read so far
    filename,  \* the filename argument of the call ("" stands for None)
    idx,       \* number of physical lines taken from source so far
    pc,        \* "idle" | "loop" | "returned" | "raised"
    out,       \* what the call on self returned or raised
    fresh_out, \* what the same call on fresh returned or raised
    leftover,  \* what self held when compile was called: "fresh" (never used),
               \* "open" (a stack left non-empty by the last call) or "closed"
    arg,       \* argument of the pure function under test
    ret,       \* its return value
    called     \* the pure function has been applied

vars == <<self, fresh, source, filename, idx, pc, out, fresh_out, leftover,
          arg, ret, called>>

compileVars == <<self, fresh, source, filename, idx, pc, out, fresh_out, leftover>>

(***************************************************************************)
(* Characters and the str methods the source uses.                         *)
(***************************************************************************)
Lowers ==
    <<"a","b","c","d","e","f","g","h","i","j","k","l","m",
      "n","o","p","q","r","s","t","u","v","w","x","y","z">>

Uppers ==
    <<"A","B","C","D","E","F","G","H","I","J","K","L","M",
      "N","O","P","Q","R","S","T","U","V","W","X","Y","Z">>

Digits == {"0","1","2","3","4","5","6","7","8","9"}

Range(s) == {s[i] : i \in 1..Len(s)}

IsSpace(c) == c \in {" ", "\t"}

IsIdentStart(c) == c \in Range(Lowers) \cup Range(Uppers) \cup {"_"}

IsIdentChar(c) == IsIdentStart(c) \/ c \in Digits

\* str.lower on one character (what re.I compares)
LowerChar(c) ==
    IF c \in Range(Uppers)
    THEN Lowers[CHOOSE i \in 1..Len(Uppers) : Uppers[i] = c]
    ELSE c

LowerStr(s) == [i \in 1..Len(s) |-> LowerChar(s[i])]

\* s[i-1:] starts with p
StartsWithAt(s, p, i) ==
    /\ i + Len(p) - 1 <= Len(s)
    /\ \A k \in 1..Len(p) : s[i + k - 1] = p[k]

\* the same, ignoring case (p is lower case)
StartsWithAtCI(s, p, i) ==
    /\ i + Len(p) - 1 <= Len(s)
    /\ \A k \in 1..Len(p) : LowerChar(s[i + k - 1]) = p[k]

\* 1-based index of the first occurrence of tok in s, 0 when absent
Find(s, tok) ==
    IF \E i \in 1..Len(s) : StartsWithAt(s, tok, i)
    THEN CHOOSE i \in 1..Len(s) :
            /\ StartsWithAt(s, tok, i)
            /\ \A j \in 1..(i - 1) : ~StartsWithAt(s, tok, j)
    ELSE 0

Count(s, c) == Cardinality({i \in 1..Len(s) : s[i] = c})

\* s[i-1:]
From(s, i) == SubSeq(s, i, Len(s))

RStrip(s) ==
    LET keep == {i \in 1..Len(s) : ~IsSpace(s[i])}
    IN  IF keep = {} THEN <<>>
        ELSE SubSeq(s, 1, CHOOSE i \in keep : \A j \in keep : j <= i)

LStrip(s) ==
    LET keep == {i \in 1..Len(s) : ~IsSpace(s[i])}
    IN  IF keep = {} THEN <<>>
        ELSE From(s, CHOOSE i \in keep : \A j \in keep : i <= j)

Strip(s) == LStrip(RStrip(s))

\* index of the first character at or after i that is not white space
SkipSpace(s, i) ==
    LET stop == {j \in i..Len(s) : ~IsSpace(s[j])}
    IN  IF stop = {} THEN Len(s) + 1
        ELSE CHOOSE j \in stop : \A k \in stop : j <= k

RECURSIVE ReplaceFrom(_, _, _, _)
ReplaceFrom(s, w, op, i) ==
    IF i > Len(s) THEN <<>>
    ELSE IF StartsWithAt(s, w, i) THEN op \o ReplaceFrom(s, w, op, i + Len(w))
    ELSE <<s[i]>> \o ReplaceFrom(s, w, op, i + 1)

\* str.replace(w, op)
Replace(s, w, op) == ReplaceFrom(s, w, op, 1)

RECURSIVE Rep(_, _)
\* unit * n
Rep(unit, n) == IF n <= 0 THEN <<>> ELSE unit \o Rep(unit, n - 1)

(***************************************************************************)
(* _strip_comment                                                          *)
(***************************************************************************)
CommentTokens == << <<"#">>, <<"/", "/">> >>

\* line.partition(token)[0]
PartitionHead(line, token) == SubSeq(line, 1, Find(line, token) - 1)

\* TokenCuts without the test of the quotes
TokenCutsAnywhere(line, token) == Find(line, token) # 0

\* the test of one turn of the loop over the tokens
TokenCuts(line, token) ==
    /\ Find(line, token) # 0
    /\ Count(PartitionHead(line, token), "\"") % 2 = 0
    /\ Count(PartitionHead(line, token), "'") % 2 = 0

RECURSIVE StripFrom(_, _)
StripFrom(line, k) ==
    IF k > Len(CommentTokens) THEN line
    ELSE IF TokenCuts(line, CommentTokens[k])
         THEN RStrip(PartitionHead(line, CommentTokens[k]))
         ELSE StripFrom(line, k + 1)

StripComment(line) == StripFrom(line, 1)

(***************************************************************************)
(* _tx_expr                                                                *)
(***************************************************************************)
\* the tables, in the order the source iterates them
WORD_OPS ==
    << <<<<" ","p","l","u","s"," ">>, <<" ","+"," ">>>>,
       <<<<" ","m","i","n","u","s"," ">>, <<" ","-"," ">>>>,
       <<<<" ","t","i","m","e","s"," ">>, <<" ","*"," ">>>>,
       <<<<" ","o","v","e","r"," ">>, <<" ","/"," ">>>> >>

LITERALS ==
    << <<<<" ","t","r","u","e"," ">>, <<" ","T","r","u","e"," ">>>>,
       <<<<" ","f","a","l","s","e"," ">>, <<" ","F","a","l","s","e"," ">>>>,
       <<<<" ","n","u","l","l"," ">>, <<" ","N","o","n","e"," ">>>> >>

\* each pattern is \b<phrase>\b, matched with re.I
COMPARATORS ==
    << <<<<"i","s"," ","a","t"," ","l","e","a","s","t">>, <<">","=">>>>,
       <<<<"i","s"," ","a","t"," ","m","o","s","t">>, <<"<","=">>>>,
       <<<<"i","s"," ","g","r","e","a","t","e","r"," ","t","h","a","n">>, <<">">>>>,
       <<<<"i","s"," ","l","e","s","s"," ","t","h","a","n">>, <<"<">>>>,
       <<<<"e","q","u","a","l","s">>, <<"=","=">>>>,
       <<<<"n","o","t"," ","e","q","u","a","l","s">>, <<"!","=">>>> >>

\* \w at the 1-based position i of s (False outside s)
WordAt(s, i) == i \in 1..Len(s) /\ IsIdentChar(s[i])

\* \b just before position i
Boundary(s, i) == WordAt(s, i - 1) # WordAt(s, i)

\* \b<phrase>\b matches at position i, ignoring case
MatchWord(s, phrase, i) ==
    /\ StartsWithAtCI(s, phrase, i)
    /\ Boundary(s, i)
    /\ Boundary(s, i + Len(phrase))

RECURSIVE ReSubFrom(_, _, _, _)
ReSubFrom(s, phrase, repl, i) ==
    IF i > Len(s) THEN <<>>
    ELSE IF MatchWord(s, phrase, i)
         THEN repl \o ReSubFrom(s, phrase, repl, i + Len(phrase))
    ELSE <<s[i]>> \o ReSubFrom(s, phrase, repl, i + 1)

\* re.sub(pat, repl, s, flags=re.I)
ReSub(s, phrase, repl) == ReSubFrom(s, phrase, repl, 1)

RECURSIVE ReplaceAll(_, _, _)
\* for w, op in table.items(): s = s.replace(w, op)
ReplaceAll(s, table, k) ==
    IF k > Len(table) THEN s
    ELSE ReplaceAll(Replace(s, table[k][1], table[k][2]), table, k + 1)

RECURSIVE ReSubAll(_, _, _)
\* for pat, repl in table: s = re.sub(pat, repl, s, flags=re.I)
ReSubAll(s, table, k) ==
    IF k > Len(table) THEN s
    ELSE ReSubAll(ReSub(s, table[k][1], table[k][2]), table, k + 1)

TxExpr(expr) ==
    Strip(ReplaceAll(ReSubAll(ReplaceAll(<<" ">> \o expr \o <<" ">>,
                                         WORD_OPS, 1),
                              COMPARATORS, 1),
                     LITERALS, 1))

(***************************************************************************)
(* The line shapes of _compile_line, one matcher per regular expression.   *)
(* A matcher yields the 1-based bounds of the groups of the match Python's *)
(* backtracking finds first: a greedy \s+ is tried longest first, a lazy   *)
(* (.+?) shortest first.                                                   *)
(***************************************************************************)
AllSpace(s) == \A i \in 1..Len(s) : IsSpace(s[i])

Min(S) == CHOOSE x \in S : \A y \in S : x <= y

Max(S) == CHOOSE x \in S : \A y \in S : y <= x

\* \s+(.+)$ from position i: the position where the group starts, 0 for no match
SpacesThenRest(line, i) ==
    IF i > Len(line) \/ ~IsSpace(line[i]) THEN 0
    ELSE IF SkipSpace(line, i) <= Len(line) THEN SkipSpace(line, i)
    ELSE IF Len(line) > i THEN Len(line)
    ELSE 0

\* (?::\s*|\s*)$ from position k
TailOK(line, k) ==
    \/ k <= Len(line) /\ line[k] = ":" /\ AllSpace(From(line, k + 1))
    \/ AllSpace(From(line, k))

\* <keyword>\s+ : the positions where the text after the white space may start
AfterKeyword(line, kw) ==
    IF StartsWithAtCI(line, kw, 1)
    THEN {a \in (Len(kw) + 2)..(Len(line) + 1) :
            \A i \in (Len(kw) + 1)..(a - 1) : IsSpace(line[i])}
    ELSE {}

\* (.+?)\s+<word> with the group at a..b: where <word> starts, 0 for no match
LazyThenWord(line, b, word) ==
    IF SkipSpace(line, b + 1) > b + 1 /\ StartsWithAtCI(line, word, SkipSpace(line, b + 1))
    THEN SkipSpace(line, b + 1)
    ELSE 0

\* of the candidate groups <<a, b>>, the one backtracking reaches first
FirstMatch(cands) ==
    LET a == Max({c[1] : c \in cands})
    IN  <<a, Min({c[2] : c \in {d \in cands : d[1] = a}})>>

\* IsEnd without flags=re.I
IsEndCaseSensitive(line) == line = <<"e","n","d">>

\* re.fullmatch(r'end', line, flags=re.I)
IsEnd(line) == LowerStr(line) = <<"e","n","d">>

\* re.match(r'^say:\s*(.*)$', line, flags=re.I)
IsSayF(line) == StartsWithAtCI(line, <<"s","a","y",":">>, 1)

SayFText(line) == From(line, SkipSpace(line, 5))

\* re.match(r'^say\s+(.+)$', line, flags=re.I)
IsSay(line) == StartsWithAtCI(line, <<"s","a","y">>, 1) /\ SpacesThenRest(line, 4) # 0

SayExpr(line) == From(line, SpacesThenRest(line, 4))

\* re.match(r'^if\s+(.+?)\s+then\s+(.+)$', line, flags=re.I)
IfThenCands(line) ==
    {c \in AfterKeyword(line, <<"i","f">>) \X (1..Len(line)) :
        /\ c[1] <= c[2]
        /\ LazyThenWord(line, c[2], <<"t","h","e","n">>) # 0
        /\ SpacesThenRest(line, LazyThenWord(line, c[2], <<"t","h","e","n">>) + 4) # 0}

IsIfThen(line) == IfThenCands(line) # {}

IfThenCond(line) ==
    SubSeq(line, FirstMatch(IfThenCands(line))[1], FirstMatch(IfThenCands(line))[2])

IfThenStmt(line) ==
    From(line, SpacesThenRest(line,
        LazyThenWord(line, FirstMatch(IfThenCands(line))[2], <<"t","h","e","n">>) + 4))

\* re.match(r'^if\s+(.+?)(?::\s*|\s*)$', line, flags=re.I)
IfCands(line) ==
    {c \in AfterKeyword(line, <<"i","f">>) \X (1..Len(line)) :
        c[1] <= c[2] /\ TailOK(line, c[2] + 1)}

IsIf(line) == IfCands(line) # {}

IfCond(line) == SubSeq(line, FirstMatch(IfCands(line))[1], FirstMatch(IfCands(line))[2])

\* re.match(r'^repeat\s+(.+?)\s+times(?:\s+do)?(?::\s*|\s*)$', line, flags=re.I)
TimesTailOK(line, u) ==
    \/ /\ SkipSpace(line, u) > u
       /\ StartsWithAtCI(line, <<"d","o">>, SkipSpace(line, u))
       /\ TailOK(line, SkipSpace(line, u) + 2)
    \/ TailOK(line, u)

RepeatCands(line) ==
    {c \in AfterKeyword(line, <<"r","e","p","e","a","t">>) \X (1..Len(line)) :
        /\ c[1] <= c[2]
        /\ LazyThenWord(line, c[2], <<"t","i","m","e","s">>) # 0
        /\ TimesTailOK(line, LazyThenWord(line, c[2], <<"t","i","m","e","s">>) + 5)}

IsRepeat(line) == RepeatCands(line) # {}

RepeatCount(line) ==
    SubSeq(line, FirstMatch(RepeatCands(line))[1], FirstMatch(RepeatCands(line))[2])

\* the last position of the identifier [A-Za-z_][A-Za-z0-9_]* that starts at n
IdentEnd(line, n) ==
    Max({e \in n..Len(line) : \A i \in (n + 1)..e : IsIdentChar(line[i])})

\* re.match(r'^def\s+([A-Za-z_][A-Za-z0-9_]*)\s*(.*?)(?::\s*|\s*)$', line, flags=re.I)
IsDef(line) ==
    /\ StartsWithAtCI(line, <<"d","e","f">>, 1)
    /\ SkipSpace(line, 4) > 4
    /\ SkipSpace(line, 4) <= Len(line)
    /\ IsIdentStart(line[SkipSpace(line, 4)])

DefName(line) == SubSeq(line, SkipSpace(line, 4), IdentEnd(line, SkipSpace(line, 4)))

DefArgs(line) ==
    LET g == SkipSpace(line, IdentEnd(line, SkipSpace(line, 4)) + 1)
        h == Min({b \in (g - 1)..Len(line) : TailOK(line, b + 1)})
    IN  SubSeq(line, g, h)

\* re.match(r'^return\s+(.+)$', line, flags=re.I)
IsReturn(line) == StartsWithAtCI(line, <<"r","e","t","u","r","n">>, 1) /\ SpacesThenRest(line, 7) # 0

ReturnExpr(line) == From(line, SpacesThenRest(line, 7))

\* re.match(r'^([A-Za-z_][A-Za-z0-9_]*)\s+is\s+(.+)$', line, flags=re.I)
IsAssign(line) ==
    /\ Len(line) >= 1
    /\ IsIdentStart(line[1])
    /\ LazyThenWord(line, IdentEnd(line, 1), <<"i","s">>) # 0
    /\ SpacesThenRest(line, LazyThenWord(line, IdentEnd(line, 1), <<"i","s">>) + 2) # 0

AssignName(line) == SubSeq(line, 1, IdentEnd(line, 1))

AssignExpr(line) ==
    From(line, SpacesThenRest(line, LazyThenWord(line, IdentEnd(line, 1), <<"i","s">>) + 2))

RECURSIVE SplitFrom(_, _)
SplitFrom(s, i) ==
    IF SkipSpace(s, i) > Len(s) THEN <<>>
    ELSE LET a == SkipSpace(s, i)
             e == Max({k \in a..Len(s) : \A j \in a..k : ~IsSpace(s[j])})
         IN  <<SubSeq(s, a, e)>> \o SplitFrom(s, e + 1)

\* str.split(): the words between runs of white space
Split(s) == SplitFrom(s, 1)

RECURSIVE JoinFrom(_, _, _)
JoinFrom(sep, parts, k) ==
    IF k > Len(parts) THEN <<>>
    ELSE IF k = Len(parts) THEN parts[k]
    ELSE parts[k] \o sep \o JoinFrom(sep, parts, k + 1)

\* sep.join(parts)
Join(sep, parts) == JoinFrom(sep, parts, 1)

\* the rule of _compile_line that fires on a stripped, comment-free line
LineKind(line) ==
    IF IsEnd(line) THEN "end"
    ELSE IF IsSayF(line) THEN "say_f"
    ELSE IF IsSay(line) THEN "say"
    ELSE IF IsIfThen(line) THEN "if_then"
    ELSE IF IsIf(line) THEN "if"
    ELSE IF IsRepeat(line) THEN "repeat"
    ELSE IF IsDef(line) THEN "def"
    ELSE IF IsReturn(line) THEN "return"
    ELSE IF IsAssign(line) THEN "assign"
    ELSE "fallback"

(***************************************************************************)
(* The compiler instance and _compile_line.  A call yields the state it    *)
(* leaves in the instance and the exception it raised, NoExc if none.      *)
(* _compile_line is ParseLine, what it reads from the line, followed by    *)
(* Exec, what it does to the instance.                                     *)
(***************************************************************************)
\* __init__
NewCompiler(indent_unit) ==
    [indent_unit |-> indent_unit, lines |-> <<>>, indent |-> 0, stack |-> <<>>]

NoExc == [type |-> "none", msg |-> ""]

Ok(st) == [st |-> st, exc |-> NoExc]

Raise(st, type, msg) == [st |-> st, exc |-> [type |-> type, msg |-> msg]]

\* Emit without the indent prefix
EmitNoIndent(st, s) == [st EXCEPT !.lines = Append(@, s)]

\* _emit
Emit(st, s) ==
    [st EXCEPT !.lines = Append(@, Rep(st.indent_unit, st.indent) \o s)]

\* OpenBlock pushing the tag 'if' for every kind of block
OpenBlockAlwaysIf(st, tag) ==
    [st EXCEPT !.indent = @ + 1, !.stack = Append(@, "if")]

\* OpenBlock without its "self.indent += 1"
OpenBlockKeepsIndent(st, tag) == [st EXCEPT !.stack = Append(@, tag)]

\* self.indent += 1; self.stack.append(tag)
OpenBlock(st, tag) ==
    [st EXCEPT !.indent = @ + 1, !.stack = Append(@, tag)]

\* CloseBlock without its "self.indent -= 1"
CloseBlockKeepsIndent(st) ==
    IF st.stack = <<>>
    THEN Raise(st, "IndexError", "pop from empty list")
    ELSE Ok([st EXCEPT !.stack = SubSeq(@, 1, Len(@) - 1)])

\* self.stack.pop(); self.indent -= 1   (list.pop raises on an empty list)
CloseBlock(st) ==
    IF st.stack = <<>>
    THEN Raise(st, "IndexError", "pop from empty list")
    ELSE Ok([st EXCEPT !.stack = SubSeq(@, 1, Len(@) - 1), !.indent = @ - 1])

\* EndRule without its pop
EndRuleKeepsBlock(st) ==
    IF st.stack = <<>>
    THEN Raise(st, "SyntaxError", "'end' with no open block")
    ELSE Ok(st)

\* the end rule
EndRule(st) ==
    IF st.stack = <<>>
    THEN Raise(st, "SyntaxError", "'end' with no open block")
    ELSE CloseBlock(st)

\* the header of both if rules
IfHeader(cond) == <<"i","f"," ">> \o TxExpr(cond) \o <<":">>

\* the argument of _emit in _say_f
SayFLine(inner) ==
    <<"p","r","i","n","t","(","f","\"">>
    \o Replace(Replace(TxExpr(inner), <<"\\">>, <<"\\","\\">>), <<"\"">>, <<"\\","\"">>)
    \o <<"\"",")">>

\* a line as _compile_line reads it: the rule that fires, the text the rule
\* hands to _emit, and for the inline if-then its nested statement
Statement(kind, text, nested) == [kind |-> kind, text |-> text, nested |-> nested]

RECURSIVE ParseLine(_)
\* what _compile_line(raw) takes from raw, which does not depend on the state
\* of the instance.  An empty Strip(raw) makes StripComment empty as well, so
\* the two early returns of the source are the one test below.
ParseLine(raw) ==
    LET line == StripComment(Strip(raw))
        kind == LineKind(line)
    IN  IF line = <<>> THEN Statement("blank", <<>>, <<>>)
        ELSE IF kind = "end" THEN Statement(kind, <<>>, <<>>)
        ELSE IF kind = "say_f" THEN Statement(kind, SayFLine(SayFText(line)), <<>>)
        ELSE IF kind = "say"
             THEN Statement(kind, <<"p","r","i","n","t","(">> \o TxExpr(SayExpr(line)) \o <<")">>, <<>>)
        ELSE IF kind = "if_then"
             THEN Statement(kind, IfHeader(IfThenCond(line)),
                            <<ParseLine(Strip(IfThenStmt(line)))>>)
        ELSE IF kind = "if" THEN Statement(kind, IfHeader(IfCond(line)), <<>>)
        ELSE IF kind = "repeat"
             THEN Statement(kind, <<"f","o","r"," ","_"," ","i","n"," ","r","a","n","g","e","(","i","n","t","(">>
                                  \o TxExpr(RepeatCount(line)) \o <<")",")",":">>, <<>>)
        ELSE IF kind = "def"
             THEN Statement(kind, <<"d","e","f"," ">> \o DefName(line) \o <<"(">>
                                  \o Join(<<","," ">>, Split(Strip(DefArgs(line))))
                                  \o <<")",":">>, <<>>)
        ELSE IF kind = "return"
             THEN Statement(kind, <<"r","e","t","u","r","n"," ">> \o TxExpr(ReturnExpr(line)), <<>>)
        ELSE IF kind = "assign"
             THEN Statement(kind, AssignName(line) \o <<" ","="," ">>
                                  \o TxExpr(AssignExpr(line)), <<>>)
        ELSE Statement("fallback", raw, <<>>)

RECURSIVE Exec(_, _)
\* what _compile_line does to the instance for a line read as stmt
Exec(st, stmt) ==
    IF stmt.kind = "blank" THEN Ok(st)
    ELSE IF stmt.kind = "end" THEN EndRule(st)
    ELSE IF stmt.kind = "if_then"
         THEN LET nested == Exec(OpenBlock(Emit(st, stmt.text), "if"), stmt.nested[1])
              IN  IF nested.exc # NoExc THEN nested
                  ELSE CloseBlock(nested.st)
    ELSE IF stmt.kind \in {"if", "repeat", "def"}
         THEN Ok(OpenBlock(Emit(st, stmt.text), stmt.kind))
    ELSE Ok(Emit(st, stmt.text))

\* _compile_line(raw)
CompileLine(st, raw) == Exec(st, ParseLine(raw))

(***************************************************************************)
(* compile, one step per physical line.                                    *)
(***************************************************************************)
MaxLines == 3

\* indent_unit: the default of __init__ and the --tabs unit of main
IndentUnits == {<<" "," "," "," ">>, <<"\t">>}

\* the filename argument; "" stands for the default None
Filenames == {"", "a.monthy"}

\* the physical lines the sources are made of
LinePool ==
    { \* end, End
      <<"e","n","d">>,
      <<"E","n","d">>,
      \* if x
      <<"i","f"," ","x">>,
      \* repeat 2 times
      <<"r","e","p","e","a","t"," ","2"," ","t","i","m","e","s">>,
      \* def f a
      <<"d","e","f"," ","f"," ","a">>,
      \* if x then say x
      <<"i","f"," ","x"," ","t","h","e","n"," ","s","a","y"," ","x">>,
      \* if x then end
      <<"i","f"," ","x"," ","t","h","e","n"," ","e","n","d">>,
      \* if x then def g
      <<"i","f"," ","x"," ","t","h","e","n"," ","d","e","f"," ","g">>,
      \* if a then if b then end
      <<"i","f"," ","a"," ","t","h","e","n"," ","i","f"," ","b"," ","t","h","e","n"," ","e","n","d">>,
      \* # c
      <<"#"," ","c">>,
      \* " y() # c"
      <<" ","y","(",")"," ","#"," ","c">>,
      \* the empty line, and a line of a space and a tab
      <<>>,
      <<" ","\t">>,
      \* //#
      <<"/","/","#">>,
      \* say x
      <<"s","a","y"," ","x">>,
      \* say: "{x}
      <<"s","a","y",":"," ","\"","{","x","}">>,
      \* return x
      <<"r","e","t","u","r","n"," ","x">>,
      \* x is 1
      <<"x"," ","i","s"," ","1">> }

\* the lines of LinePool as _compile_line reads them
Statements == [raw \in LinePool |-> ParseLine(raw)]

NoResult == [kind |-> "none", type |-> "", msg |-> "", text |-> <<>>]

\* filename or '<string>'
Where(fn) == IF fn = "" THEN "<string>" ELSE fn

\* Decorated with enumerate's default start=0
DecoratedZeroBased(exc, fn, n) ==
    [kind |-> "error", type |-> exc.type,
     msg |-> exc.msg \o " (at " \o Where(fn) \o ":" \o ToString(n - 1) \o ")",
     text |-> <<>>]

\* raise type(e)(f"{e} (at {where})")
Decorated(exc, fn, n) ==
    [kind |-> "error", type |-> exc.type,
     msg |-> exc.msg \o " (at " \o Where(fn) \o ":" \o ToString(n) \o ")",
     text |-> <<>>]

RECURSIVE JoinTags(_, _)
\* ' > '.join(self.stack)
JoinTags(stack, k) ==
    IF k > Len(stack) THEN ""
    ELSE IF k = Len(stack) THEN stack[k]
    ELSE stack[k] \o " > " \o JoinTags(stack, k + 1)

\* the two statements after the loop of compile
AfterLoop(st) ==
    IF st.stack # <<>>
    THEN [kind |-> "error", type |-> "SyntaxError",
          msg |-> "Missing 'end' for: " \o JoinTags(st.stack, 1), text |-> <<>>]
    ELSE [kind |-> "text", type |-> "", msg |-> "",
          text |-> Join(<<"\n">>, st.lines) \o <<"\n">>]

\* Reset without its "self.stack.clear()"
ResetKeepsStack(st) == [st EXCEPT !.lines = <<>>, !.indent = 0]

\* self.lines.clear(); self.indent = 0; self.stack.clear()
Reset(st) == [st EXCEPT !.lines = <<>>, !.indent = 0, !.stack = <<>>]

\* a compiler constructed with indent_unit u, compile not yet called
Constructed(u) ==
    /\ self = NewCompiler(u)
    /\ fresh = NewCompiler(u)
    /\ source = <<>>
    /\ filename = ""
    /\ idx = 0
    /\ pc = "idle"
    /\ out = NoResult
    /\ fresh_out = NoResult
    /\ leftover = "fresh"

Init ==
    /\ \E u \in IndentUnits : Constructed(u)
    /\ arg = <<>>
    /\ ret = <<>>
    /\ called = FALSE

\* a caller invokes compile(source, filename=fn) on the instance; the same call
\* is made on an instance constructed for it.  The lines of the source are drawn
\* as the loop reaches them.
Compile(fn) ==
    /\ pc \in {"idle", "returned", "raised"}
    /\ self' = Reset(self)
    /\ fresh' = Reset(NewCompiler(self.indent_unit))
    /\ source' = <<>>
    /\ filename' = fn
    /\ idx' = 0
    /\ pc' = "loop"
    /\ out' = NoResult
    /\ fresh_out' = NoResult
    /\ leftover' = IF pc = "idle" THEN "fresh"
                   ELSE IF self.stack # <<>> THEN "open" ELSE "closed"
    /\ UNCHANGED <<arg, ret, called>>

\* one turn of the loop over the physical lines, raw being the next line; r
\* is the outcome of _compile_line on self and f its outcome on fresh (one
\* evaluation serves both while the two instances hold the same state)
Line(raw) ==
    /\ pc = "loop"
    /\ idx < MaxLines
    /\ \E r \in {Exec(self, Statements[raw])} :
        \E f \in {IF fresh = self THEN r ELSE Exec(fresh, Statements[raw])} :
           /\ self' = r.st
           /\ pc' = IF r.exc # NoExc THEN "raised" ELSE "loop"
           /\ out' = IF r.exc # NoExc THEN Decorated(r.exc, filename, idx + 1) ELSE out
           /\ IF fresh_out # NoResult
              THEN UNCHANGED <<fresh, fresh_out>>
              ELSE /\ fresh' = f.st
                   /\ fresh_out' = IF f.exc # NoExc
                                   THEN Decorated(f.exc, filename, idx + 1)
                                   ELSE fresh_out
    /\ source' = Append(source, raw)
    /\ idx' = idx + 1
    /\ UNCHANGED <<filename, leftover, arg, ret, called>>

\* the source has no more lines: raise for the blocks left open, or return
\* the text
Finish ==
    /\ pc = "loop"
    /\ out' = AfterLoop(self)
    /\ pc' = IF out'.kind = "error" THEN "raised" ELSE "returned"
    /\ fresh_out' = IF fresh_out # NoResult THEN fresh_out ELSE AfterLoop(fresh)
    /\ UNCHANGED <<self, fresh, source, filename, idx, leftover, arg, ret, called>>

Next ==
    \/ \E fn \in Filenames : Compile(fn)
    \/ \E raw \in LinePool : Line(raw)
    \/ Finish

Spec == Init /\ [][Next]_vars

(***************************************************************************)
(* _strip_comment as a function of its argument: every line of at most     *)
(* MaxStripLen characters over the characters that decide its result.      *)
(***************************************************************************)
MaxStripLen == 5

StripAlphabet == {"#", "/", "\"", "'", "x", " "}

StripInputs == UNION {[1..n -> StripAlphabet] : n \in 0..MaxStripLen}

InitStrip ==
    /\ Constructed(<<" "," "," "," ">>)
    /\ arg \in StripInputs
    /\ ret = <<>>
    /\ called = FALSE

CallStripComment ==
    /\ ~called
    /\ ret' = StripComment(arg)
    /\ called' = TRUE
    /\ UNCHANGED <<arg, compileVars>>

SpecStrip == InitStrip /\ [][CallStripComment]_vars

(***************************************************************************)
(* _tx_expr as a function of its argument: the fragments made of at most   *)
(* MaxPieces operands and comparator phrases, one space between them.      *)
(***************************************************************************)
MaxPieces == 3

ExprPieces ==
    { <<"a">>, <<"b">>,
      <<"i","s"," ","a","t"," ","l","e","a","s","t">>, <<"i","s"," ","a","t"," ","m","o","s","t">>, <<"i","s"," ","g","r","e","a","t","e","r"," ","t","h","a","n">>, <<"i","s"," ","l","e","s","s"," ","t","h","a","n">>,
      <<"n","o","t"," ","e","q","u","a","l","s">>, <<"e","q","u","a","l","s">>, <<"N","o","t"," ","E","q","u","a","l","s">> }

ExprInputs == UNION {[1..n -> ExprPieces] : n \in 0..MaxPieces}

InitExpr ==
    /\ Constructed(<<" "," "," "," ">>)
    /\ arg \in ExprInputs
    /\ ret = <<>>
    /\ called = FALSE

\* the fragment is the pieces of arg joined by single spaces
CallTxExpr ==
    /\ ~called
    /\ ret' = TxExpr(Join(<<" ">>, arg))
    /\ called' = TRUE
    /\ UNCHANGED <<arg, compileVars>>

SpecExpr == InitExpr /\ [][CallTxExpr]_vars

(***************************************************************************)
(* Properties of compile, checked under Spec.                              *)
(***************************************************************************)
Openers == {"if", "repeat", "def"}

\* compile has raised while processing a line (not after the loop)
RaisedInLine == pc = "raised" /\ out # AfterLoop(self)

\* compile has run through all lines of its source
LoopCompleted == pc \in {"returned", "raised"} /\ ~RaisedInLine

\* the comment-free text _compile_line classifies
Stripped(raw) == StripComment(Strip(raw))

RECURSIVE InnerKind(_)
\* the kind of a statement: for an inline if-then, the kind of its
\* (innermost) nested statement
InnerKind(stmt) ==
    IF stmt.kind = "if_then" THEN InnerKind(stmt.nested[1]) ELSE stmt.kind

\* the kind of the statement of a line of LinePool
StmtKind(raw) == InnerKind(Statements[raw])

\* the statement kinds of the lines of src
StmtKinds(src) == [i \in 1..Len(src) |-> StmtKind(src[i])]

RECURSIVE OpenKinds(_, _)
\* the kinds of the opening statements among the first n of kinds that no
\* `end` statement has matched, outermost first
OpenKinds(kinds, n) ==
    IF n = 0 THEN <<>>
    ELSE LET open == OpenKinds(kinds, n - 1)
         IN  IF kinds[n] \in Openers THEN Append(open, kinds[n])
             ELSE IF kinds[n] = "end" /\ open # <<>>
                  THEN SubSeq(open, 1, Len(open) - 1)
             ELSE open

\* every `end` statement has an opening statement before it to match: no
\* prefix of kinds holds more `end` statements than opening statements
EndsMatched(kinds) ==
    \A n \in 1..Len(kinds) :
        Cardinality({i \in 1..n : kinds[i] = "end"})
            <= Cardinality({i \in 1..n : kinds[i] \in Openers})

\* every opening statement has a matching `end` statement
OpenersMatched(kinds) == OpenKinds(kinds, Len(kinds)) = <<>>

\* C1: at every line boundary of a compile call, also the one a raising line
\* leaves behind, indent equals the length of stack and is not negative
C1_IndentIsStackDepth ==
    /\ self.indent = Len(self.stack)
    /\ self.indent >= 0

\* the third line, an inline if-then whose nested `end` emptied the stack,
\* has raised from its own pop after emitting its header
C1_Witness ==
    /\ RaisedInLine
    /\ out.type = "IndexError"
    /\ Len(source) = 3
    /\ self.lines # <<>>

\* C2 (as claimed): an inline if-then line leaves stack and indent as they
\* were before the line, whatever its nested statement
C2_InlineIfNoNetEffect ==
    [][(/\ pc = "loop"
        /\ idx' = idx + 1
        /\ Statements[source'[idx']].kind = "if_then")
       => (self'.stack = self.stack /\ self'.indent = self.indent)]_vars

\* C3 (as claimed): when every opening statement has a matching `end`, compile
\* raises nothing and ends with indent 0 and an empty stack
C3_OpenersMatchedCompiles ==
    pc \in {"returned", "raised"} =>
        \A kinds \in {StmtKinds(source)} :
            OpenersMatched(kinds)
                => (pc = "returned" /\ self.indent = 0 /\ self.stack = <<>>)

\* C3 (amended): when every opening statement has a matching `end` and every
\* `end` statement an opening statement to match, no line raises, and compile
\* returns the text with indent 0 and an empty stack
C3_BalancedCompiles ==
    pc \in {"returned", "raised"} =>
        \A kinds \in {StmtKinds(source)} :
            /\ RaisedInLine => ~EndsMatched(kinds)
            /\ (LoopCompleted /\ EndsMatched(kinds) /\ OpenersMatched(kinds))
                  => (pc = "returned" /\ out.kind = "text"
                      /\ self.indent = 0 /\ self.stack = <<>>)

\* a balanced source of three lines with a block and an inline if-then that
\* closes it has been compiled
C3_Witness ==
    /\ pc = "returned"
    /\ Len(source) = 3
    /\ StmtKind(source[1]) \in Openers
    /\ Statements[source[3]].kind = "if_then"
    /\ EndsMatched(StmtKinds(source))
    /\ OpenersMatched(StmtKinds(source))

\* C4 (as claimed): after the loop a non-empty stack makes compile raise
\* MissingEnd listing the stack outermost first, and every opening statement
\* left without a matching `end` has its kind named in that message
C4_MissingEndNamesOpener ==
    LoopCompleted =>
        /\ self.stack # <<>> =>
              out = [kind |-> "error", type |-> "SyntaxError",
                     msg |-> "Missing 'end' for: " \o JoinTags(self.stack, 1),
                     text |-> <<>>]
        /\ \A k \in Range(OpenKinds(StmtKinds(source), Len(source))) :
              /\ pc = "raised"
              /\ out.type = "SyntaxError"
              /\ k \in Range(self.stack)

\* the lines of LinePool that read `end` in some letter case once their
\* comment and the white space around them are taken off
EndLines == {raw \in LinePool : LowerStr(Stripped(raw)) = <<"e","n","d">>}

\* C5: an `end` line, in any letter case, met with an empty stack makes compile
\* raise UnexpectedEnd at that line and leaves stack, indent and output alone
C5_UnexpectedEnd ==
    [][(/\ pc = "loop"
        /\ idx' = idx + 1
        /\ source'[idx'] \in EndLines
        /\ self.stack = <<>>)
       => (/\ pc' = "raised"
           /\ out'.kind = "error"
           /\ out'.type = "SyntaxError"
           /\ out'.msg = "'end' with no open block (at " \o Where(filename)
                           \o ":" \o ToString(Len(source')) \o ")"
           /\ self' = self)]_vars

\* `End` has raised UnexpectedEnd on line 2, after a line that emitted output
C5_Witness ==
    /\ pc = "raised"
    /\ Len(source) = 2
    /\ source[2] = <<"E","n","d">>
    /\ out.msg = "'end' with no open block (at <string>:2)"
    /\ self.lines # <<>>
    /\ self.stack = <<>>

\* C6: the first line that raises ends the call: the error carries the
\* original message followed by " (at <label>:<n>)", n the 1-based number of
\* the physical line, no text is returned, and no further line is processed
C6_FirstErrorAborts ==
    [][/\ (pc = "loop" /\ idx' = idx + 1)
          => LET e == Exec(self, Statements[source'[idx']]).exc
             IN  IF e = NoExc THEN pc' = "loop" /\ out' = NoResult
                 ELSE /\ pc' = "raised"
                      /\ out' = [kind |-> "error", type |-> e.type,
                                 msg |-> e.msg \o " (at " \o Where(filename) \o ":"
                                           \o ToString(Len(source')) \o ")",
                                 text |-> <<>>]
       /\ pc = "raised" => (pc' = "loop" /\ idx' = 0 /\ source' = <<>>)]_vars

\* a line after a comment-only line has raised and is reported as line 2
C6_Witness ==
    /\ RaisedInLine
    /\ source = << <<"#"," ","c">>, <<"e","n","d">> >>
    /\ out.msg = "'end' with no open block (at a.monthy:2)"
    /\ out.text = <<>>

\* C7: a compile call on a used instance goes as the same call on an instance
\* constructed for it: same state at every line, same text or same error
C7_ReuseEqualsFresh ==
    pc # "idle" => (self = fresh /\ out = fresh_out)

\* a call on an instance whose last call left blocks open has returned text
C7_Witness ==
    /\ leftover = "open"
    /\ pc = "returned"
    /\ Len(source) >= 2
    /\ self.lines # <<>>

(***************************************************************************)
(* Properties of _tx_expr, checked under SpecExpr.                         *)
(***************************************************************************)
\* the operator the claim gives for a piece that is a comparator phrase, in
\* any letter case; any other piece stands for itself
Rewritten(piece) ==
    CASE LowerStr(piece) = <<"i","s"," ","a","t"," ","l","e","a","s","t">> -> <<">","=">>
      [] LowerStr(piece) = <<"i","s"," ","a","t"," ","m","o","s","t">> -> <<"<","=">>
      [] LowerStr(piece) = <<"i","s"," ","g","r","e","a","t","e","r"," ","t","h","a","n">> -> <<">">>
      [] LowerStr(piece) = <<"i","s"," ","l","e","s","s"," ","t","h","a","n">> -> <<"<">>
      [] LowerStr(piece) = <<"n","o","t"," ","e","q","u","a","l","s">> -> <<"!","=">>
      [] LowerStr(piece) = <<"e","q","u","a","l","s">> -> <<"=","=">>
      [] OTHER -> piece

\* C8 (as claimed): every comparator phrase of a fragment becomes its operator,
\* `not equals` becoming `!=`, and no result holds a `not` followed by `==`
C8_ComparatorsRewritten ==
    called =>
        /\ ret = Join(<<" ">>, [i \in 1..Len(arg) |-> Rewritten(arg[i])])
        /\ Find(ret, <<"n","o","t"," ","=","=">>) = 0

(***************************************************************************)
(* Properties of _strip_comment, checked under SpecStrip.                  *)
(***************************************************************************)
\* a comment marker, `#` or `//`, starts at position p of line
MarkerAt(line, p) ==
    \/ line[p] = "#"
    \/ line[p] = "/" /\ p < Len(line) /\ line[p + 1] = "/"

\* the positions of the markers of line that have an even number of single
\* quotes and an even number of double quotes before them
OutsideQuotes(line) ==
    {p \in 1..Len(line) :
        /\ MarkerAt(line, p)
        /\ Count(SubSeq(line, 1, p - 1), "\"") % 2 = 0
        /\ Count(SubSeq(line, 1, p - 1), "'") % 2 = 0}

\* C9: the result is the line itself, or the right-trimmed text before a
\* marker that has an even number of each quote character before it
C9_CutsOnlyOutsideQuotes ==
    called =>
        \/ ret = arg
        \/ \E p \in OutsideQuotes(arg) : ret = RStrip(SubSeq(arg, 1, p - 1))

\* `"#"//` has been cut at its `//`, not at the `#` inside the quotes
C9_Witness ==
    /\ called
    /\ arg = <<"\"","#","\"","/","/">>
    /\ ret = <<"\"","#","\"">>

\* C10 (as claimed): a line with a marker outside quotes is cut at the
\* earliest such marker
C10_CutsAtEarliestMarker ==
    (called /\ OutsideQuotes(arg) # {})
        => ret = RStrip(SubSeq(arg, 1, Min(OutsideQuotes(arg)) - 1))

(***************************************************************************)
(* Properties of single lines within compile, checked under Spec.          *)
(***************************************************************************)
\* the loop of compile takes its next physical line in this step
TakesLine == pc = "loop" /\ idx' = idx + 1

\* the lines of LinePool that are empty, white space only, or a comment only:
\* nothing but white space stands before their first comment marker
BlankLines == {raw \in LinePool : Strip(raw) = <<>> \/ MarkerAt(Strip(raw), 1)}

\* C11 (as claimed): an empty, white-space-only or comment-only line emits
\* nothing, leaves stack and indent alone and raises nothing, wherever it
\* stands, and the loop goes on to the next line number
C11_BlankLineNoEffect ==
    [][(TakesLine /\ source'[idx'] \in BlankLines)
       => (self' = self /\ pc' = "loop" /\ out' = out)]_vars

\* the lines of LinePool no rule of _compile_line matches
FallbackLines == {raw \in LinePool : Statements[raw].kind = "fallback"}

\* C12: a line no rule matches appends one output line, the indent prefix
\* followed by the physical line as it was read, and leaves stack and indent
\* alone
C12_FallbackEmitsRaw ==
    [][(TakesLine /\ source'[idx'] \in FallbackLines)
       => (/\ self'.lines = Append(self.lines,
                                   Rep(self.indent_unit, self.indent) \o source'[idx'])
           /\ self'.stack = self.stack
           /\ self'.indent = self.indent
           /\ pc' = "loop")]_vars

\* " y() # c" has been passed through inside a block, behind one tab, with
\* its leading space and its comment
C12_Witness ==
    /\ pc = "loop"
    /\ Len(source) = 2
    /\ source[2] = <<" ","y","(",")"," ","#"," ","c">>
    /\ self.stack = <<"repeat">>
    /\ self.lines[2] = <<"\t"," ","y","(",")"," ","#"," ","c">>

\* the lines a line read as kind emits one output line for without opening
\* or closing a block
OneLineKinds == {"say", "say_f", "return", "assign"}

\* C14: a block if, repeat or def line appends one header line, pushes the tag
\* of its own kind and adds one to indent; an `end` line met with a non-empty
\* stack pops the last tag, takes one from indent and emits nothing; a say,
\* return or assignment line appends one line and leaves stack and indent alone
C14_LineEffects ==
    [][TakesLine =>
        \A kind \in {Statements[source'[idx']].kind} :
           /\ kind \in Openers =>
                 /\ Len(self'.lines) = Len(self.lines) + 1
                 /\ SubSeq(self'.lines, 1, Len(self.lines)) = self.lines
                 /\ self'.stack = Append(self.stack, kind)
                 /\ self'.indent = self.indent + 1
                 /\ pc' = "loop"
           /\ (kind = "end" /\ self.stack # <<>>) =>
                 /\ self'.lines = self.lines
                 /\ self'.stack = SubSeq(self.stack, 1, Len(self.stack) - 1)
                 /\ self'.indent = self.indent - 1
                 /\ pc' = "loop"
           /\ kind \in OneLineKinds =>
                 /\ Len(self'.lines) = Len(self.lines) + 1
                 /\ SubSeq(self'.lines, 1, Len(self.lines)) = self.lines
                 /\ self'.stack = self.stack
                 /\ self'.indent = self.indent
                 /\ pc' = "loop"]_vars

\* a repeat block holding one say, return or assignment line has been opened
\* and closed again
C14_Witness ==
    /\ pc = "loop"
    /\ Len(source) = 3
    /\ Statements[source[1]].kind = "repeat"
    /\ Statements[source[2]].kind \in OneLineKinds
    /\ source[3] \in EndLines
    /\ self.stack = <<>>
    /\ self.indent = 0
    /\ Len(self.lines) = 2

RECURSIVE EmittedAt(_, _, _)
\* the output lines of a statement whose line is met with depth blocks open:
\* its text behind depth indent units, and for an inline if-then the lines of
\* its nested statement one level deeper
EmittedAt(stmt, unit, depth) ==
    IF stmt.kind \in {"blank", "end"} THEN <<>>
    ELSE IF stmt.kind = "if_then"
         THEN <<Rep(unit, depth) \o stmt.text>>
              \o EmittedAt(stmt.nested[1], unit, depth + 1)
    ELSE <<Rep(unit, depth) \o stmt.text>>

\* C15: every line emitted while a source line is processed is prefixed by one
\* indent unit for each block open when it is emitted, the nested statement of
\* an inline if-then one level deeper than its header, and the lines emitted
\* before stay as they are until the call ends
C15_PrefixIsOpenBlocks ==
    [][/\ TakesLine =>
            self'.lines = self.lines
                          \o EmittedAt(Statements[source'[idx']], self.indent_unit,
                                       Len(self.stack))
       /\ pc = "loop" =>
            SubSeq(self'.lines, 1, Len(self.lines)) = self.lines]_vars

\* inside a def block an inline if-then has emitted its header one level deep
\* and its print two levels deep
C15_Witness ==
    /\ pc = "loop"
    /\ Len(source) = 2
    /\ Statements[source[2]].kind = "if_then"
    /\ self.stack = <<"def">>
    /\ Len(self.lines) = 3
    /\ self.lines[2] = self.indent_unit \o <<"i","f"," ","x",":">>
    /\ self.lines[3] = self.indent_unit \o self.indent_unit
                       \o <<"p","r","i","n","t","(","x",")">>

\* C16 (as claimed): compile fails in two ways only, UnexpectedEnd raised at a
\* line and MissingEnd raised after the last line
C16_OnlyEndErrors ==
    pc = "raised" =>
        \/ /\ out.type = "SyntaxError"
           /\ out.msg = "Missing 'end' for: " \o JoinTags(self.stack, 1)
           /\ self.stack # <<>>
        \/ /\ out.type = "SyntaxError"
           /\ out.msg = "'end' with no open block (at " \o Where(filename)
                          \o ":" \o ToString(Len(source)) \o ")"

(***************************************************************************)
(* The say: rule and _say_f as a function of the text after `say:`: every  *)
(* text of at most MaxSayLen characters over the characters the escaping   *)
(* and the interpolation turn on.                                          *)
(***************************************************************************)
MaxSayLen == 4

SayAlphabet == {"\\", "\"", "{", "}", "x", " "}

SayInputs == UNION {[1..n -> SayAlphabet] : n \in 0..MaxSayLen}

InitSayF ==
    /\ Constructed(<<" "," "," "," ">>)
    /\ arg \in SayInputs
    /\ ret = <<>>
    /\ called = FALSE

\* _compile_line on the line "say: <arg>"; ret is the line it emitted
CallSayF ==
    /\ ~called
    /\ \E r \in {CompileLine(self, <<"s","a","y",":"," ">> \o arg)} :
          /\ self' = r.st
          /\ ret' = r.st.lines[Len(r.st.lines)]
    /\ called' = TRUE
    /\ UNCHANGED <<arg, fresh, source, filename, idx, pc, out, fresh_out, leftover>>

SpecSayF == InitSayF /\ [][CallSayF]_vars

(***************************************************************************)
(* Properties of the say: rule, checked under SpecSayF.                    *)
(***************************************************************************)
RECURSIVE EscapedOutsideBraces(_, _, _)
\* the text s from position i on, with every backslash and every double quote
\* outside a {...} escaped once and every other character as it is; inside
\* tells that position i lies within a {...}
EscapedOutsideBraces(s, i, inside) ==
    IF i > Len(s) THEN <<>>
    ELSE IF inside
         THEN <<s[i]>> \o EscapedOutsideBraces(s, i + 1, s[i] # "}")
    ELSE IF s[i] = "{" /\ \E j \in (i + 1)..Len(s) : s[j] = "}"
         THEN <<s[i]>> \o EscapedOutsideBraces(s, i + 1, TRUE)
    ELSE IF s[i] \in {"\\", "\""}
         THEN <<"\\", s[i]>> \o EscapedOutsideBraces(s, i + 1, FALSE)
    ELSE <<s[i]>> \o EscapedOutsideBraces(s, i + 1, FALSE)

\* C13 (as claimed): the emitted line is print(f"...") around the text of the
\* say: line, whose {...} parts are unchanged and whose backslashes and double
\* quotes outside them are escaped once
C13_BracesVerbatim ==
    called =>
        ret = <<"p","r","i","n","t","(","f","\"">>
              \o EscapedOutsideBraces(Strip(arg), 1, FALSE)
              \o <<"\"",")">>

====
